---- MODULE Spec2Model ----
(***************************************************************************)
(* Model of ChainOfCustody_demo.py: the ChainOfCustody web3 wrapper, the   *)
(* IPFS uploader and the console loop main_cli.                            *)
(*                                                                         *)
(* The EvidenceChainOfCustody contract and the ledger node are what the    *)
(* wrapper calls into.  The contract's storage and the effect of its three *)
(* mutating functions follow the specification's data model; the node is   *)
(* the account's mined transaction count plus at most one transaction that *)
(* was accepted but is not mined yet.                                      *)
(*                                                                         *)
(* Python values: None is the empty sequence and a present value v is the  *)
(* one-element sequence <<v>>; a tuple returned by the contract is a TLA+  *)
(* sequence, so Python's e[0] is e[1] here.  A line typed at a prompt that *)
(* the code trims is a sequence of Unicode code points.                    *)
(***************************************************************************)
EXTENDS Integers, Sequences, FiniteSets, TLC

VARIABLES pc, exitCode, ledger, sent, ops, last, prev

vars == <<pc, exitCode, ledger, sent, ops, last, prev>>

\* Number of menu selections explored.
MaxOps == 3

None == <<>>
Some(v) == <<v>>

----------------------------------------------------------------------------
\* Input domains

CaseIds == {"CASE1"}
EvidenceIds == {"EVID1", "EVID2"}
Pairs == CaseIds \X EvidenceIds
HolderNames == {"Alice"}
RecipientNames == {"Bob"}
Descriptions == {"found at scene"}
TransferDescriptions == {"handed over"}
FilePaths == {"evidence.jpg", "missing.jpg"}

\* Files present on the local disk and the content hash IPFS gives each.
IpfsHashOf == [f \in {"evidence.jpg"} |-> "bafy123"]

\* A character of a line that the code trims is its Unicode code point: the
\* line "0" is <<48>>, " 0\t" is <<32, 48, 9>>.

\* The characters str.strip() removes: those for which str.isspace() holds.
\* \t \n \v \f \r, the separators 0x1C-0x1F, space, NEL, no-break space, and
\* the Unicode spaces U+1680, U+2000-U+200A, U+2028, U+2029, U+202F, U+205F,
\* U+3000.
Whitespace ==
    {9, 10, 11, 12, 13, 28, 29, 30, 31, 32, 133, 160, 5760}
        \cup (8192..8202) \cup {8232, 8233, 8239, 8287, 12288}

\* The one-character line made of the decimal digit d.
Key(d) == <<48 + d>>

\* Lines typed at the "Choose an option: " prompt.
RawChoices ==
    { <<48>>,               \* "0"
      <<32, 12, 48, 160, 9>>,   \* " \f0", a no-break space, "\t"
      <<48, 32, 48>>,       \* "0 0"
      <<8203, 48>>,         \* zero-width space (not whitespace), "0"
      <<49>>, <<50>>, <<51>>, <<52>>, <<53>>, <<54>>,   \* "1" .. "6"
      <<11, 54, 13>>,       \* "\v6\r"
      <<55>>,               \* "7"
      <<>> }

\* addr_list.json: "DemoUser" and "AnotherUser"
DemoUser == "0x5aaeb6053f3e94c9b9a09f33669435e7ef1beaed"
AnotherUser == "0xfb6916095ca1df60bb79ce92ce3ea74c37c5d359"
ZeroAddress == "0x0000000000000000000000000000000000000000"

\* Lines typed at the "Enter recipient Ethereum address: " prompt.
AddressInputs ==
    { AnotherUser, "0xBEEF" }

----------------------------------------------------------------------------
\* Library functions the code calls

\* Web3.toChecksumAddress on the addresses of this model: the EIP-55 form.
ChecksumTable ==
    [a \in { "0x5aaeb6053f3e94c9b9a09f33669435e7ef1beaed",
             "0x5aAeb6053F3E94C9b9A09f33669435E7Ef1BeAed",
             "0xfb6916095ca1df60bb79ce92ce3ea74c37c5d359",
             "0xfB6916095ca1df60bB79Ce92cE3Ea74c37c5d359" } |->
        IF a \in { "0x5aaeb6053f3e94c9b9a09f33669435e7ef1beaed",
                   "0x5aAeb6053F3E94C9b9A09f33669435E7Ef1BeAed" }
        THEN "0x5aAeb6053F3E94C9b9A09f33669435E7Ef1BeAed"
        ELSE "0xfB6916095ca1df60bB79Ce92cE3Ea74c37c5d359"]

\* None stands for the ValueError raised on a string that is not an address.
toChecksumAddress(a) ==
    IF a \in DOMAIN ChecksumTable THEN Some(ChecksumTable[a]) ELSE None

RECURSIVE lstrip(_)
lstrip(s) ==
    IF s # <<>> /\ Head(s) \in Whitespace THEN lstrip(Tail(s)) ELSE s

RECURSIVE rstrip(_)
rstrip(s) ==
    IF s # <<>> /\ s[Len(s)] \in Whitespace
    THEN rstrip(SubSeq(s, 1, Len(s) - 1))
    ELSE s

\* strip() that trims the left end only.
strip_left(s) == lstrip(s)

\* str.strip()
strip(s) == rstrip(lstrip(s))

----------------------------------------------------------------------------
\* The EvidenceChainOfCustody contract and the ledger node

\* What the contract's storage holds for a pair that was never registered.
DefaultRecord ==
    [evidenceId |-> "", holder |-> ZeroAddress, holderName |-> "",
     description |-> "", ipfsHash |-> "", deleted |-> FALSE]

InitLedger ==
    [evidence |-> [p \in Pairs |-> DefaultRecord],
     history  |-> [p \in Pairs |-> <<>>],
     allIds   |-> <<>>,
     count    |-> 0,
     time     |-> 0,
     pending  |-> None]

Exists(L, p) == p \in Pairs /\ L.evidence[p] # DefaultRecord

TxPair(tx) == <<tx.args[1], tx.args[2]>>

\* Whether the contract executes the call instead of reverting: register
\* needs an unused pair, transfer and delete need a registered one.
CanApply(L, tx) ==
    IF tx.fn = "registerEvidence"
    THEN TxPair(tx) \in Pairs /\ ~Exists(L, TxPair(tx))
    ELSE Exists(L, TxPair(tx))

\* A history entry: (holder address, holder name, action, description,
\* timestamp).
HistoryEntry(holder, name, action, desc, ts) ==
    <<holder, name, action, desc, ts>>

\* The contract's state after it executes tx in a block stamped ts.
ContractApply(L, tx, ts) ==
    LET p == TxPair(tx)
        a == tx.args
    IN  CASE tx.fn = "registerEvidence" ->
               [L EXCEPT
                  !.evidence[p] =
                      [evidenceId |-> a[2], holder |-> tx.from,
                       holderName |-> a[3], description |-> a[4],
                       ipfsHash |-> a[5], deleted |-> FALSE],
                  !.history[p] =
                      Append(@, HistoryEntry(tx.from, a[3], a[6], a[4], ts)),
                  !.allIds = Append(@, a[2])]
          [] tx.fn = "transferEvidence" ->
               [L EXCEPT
                  !.evidence[p].holder = a[3],
                  !.evidence[p].holderName = a[4],
                  !.history[p] =
                      Append(@, HistoryEntry(a[3], a[4], a[5], a[6], ts))]
          [] OTHER ->
               [L EXCEPT !.evidence[p].deleted = TRUE]

\* The node includes tx in a new block: the contract executes it or reverts,
\* the account's transaction count grows either way, and a transaction that
\* waited with the same nonce is gone.
MineTx(L, tx) ==
    LET ts == L.time + 1
        M  == IF CanApply(L, tx) THEN ContractApply(L, tx, ts) ELSE L
    IN  [M EXCEPT !.count = L.count + 1, !.time = ts, !.pending = None]

\* contract viewEvidence: the tuple (evidenceId, currentHolder, holderName,
\* description, ipfsHash, deleted) of the stored or default record.
ContractView(L, p) ==
    LET r == L.evidence[p]
    IN  <<r.evidenceId, r.holder, r.holderName, r.description, r.ipfsHash,
          r.deleted>>

\* web3.eth.get_transaction_count(account): transactions of the account in
\* the latest block; one that is accepted but not mined is not counted.
get_transaction_count(L) == L.count

\* What the node and the network do with one mutating call.
\*   unreachable  get_transaction_count fails, nothing is sent
\*   rejected     transact fails while estimating gas, nothing is sent
\*   refused      the node answers the send with an error (a transaction
\*                with this nonce is already waiting)
\*   mined        sent, executed, receipt status 1
\*   reverted     sent, included, receipt status 0
\*   lost         sent and mined, the wait for the receipt fails
\*   timeout      sent, still waiting when the wait gives up
NodeOutcomes ==
    {"unreachable", "rejected", "refused", "mined", "reverted", "lost",
     "timeout"}

OutcomePossible(L, call, out) ==
    CASE out = "mined"    -> CanApply(L, call)
      [] out = "reverted" -> ~CanApply(L, call)
      [] out = "refused"  -> L.pending # None
      [] OTHER            -> TRUE

----------------------------------------------------------------------------
\* class ChainOfCustody

\* __init__: self.account
account == toChecksumAddress(DemoUser)[1]

\* The result of one wrapper call: the ledger and the log of submitted
\* transactions after it, the remote calls made, the exception raised ("" if
\* none) and the receipt returned.
Result(L, log, calls, exc, receipt) ==
    [ledger |-> L, sent |-> log, calls |-> calls, exc |-> exc,
     receipt |-> receipt]

\* A wrapper that sends the transaction again when the wait for its receipt
\* gives up.
SendTransaction_retry(L, log, call, out) ==
    LET tx   == [fn |-> call.fn, args |-> call.args, from |-> account,
                 nonce |-> get_transaction_count(L)]
        log1 == Append(log, [fn |-> tx.fn, nonce |-> tx.nonce])
        c1   == <<"get_transaction_count">>
        c2   == <<"get_transaction_count", "transact">>
        c3   == <<"get_transaction_count", "transact",
                  "wait_for_transaction_receipt">>
        rcpt(st) == Some([transactionHash |-> Len(log1), status |-> st])
    IN  CASE out = "unreachable" -> Result(L, log, c1, "ConnectionError", None)
          [] out = "rejected" -> Result(L, log, c2, "TransactionError", None)
          [] out = "refused"  -> Result(L, log1, c2, "TransactionError", None)
          [] out = "mined"    -> Result(MineTx(L, tx), log1, c3, "", rcpt(1))
          [] out = "reverted" -> Result(MineTx(L, tx), log1, c3, "", rcpt(0))
          [] out = "lost" ->
               Result(MineTx(L, tx), log1, c3, "ConnectionError", None)
          [] OTHER ->
               Result([L EXCEPT !.pending = Some(tx)],
                      Append(log1, [fn |-> tx.fn, nonce |-> tx.nonce]),
                      c3 \o c3, "TimeExhausted", None)

\* contract.functions.f(...).transact({'from', 'nonce'}) followed by
\* wait_for_transaction_receipt(tx).
SendTransaction(L, log, call, out) ==
    LET tx   == [fn |-> call.fn, args |-> call.args, from |-> account,
                 nonce |-> get_transaction_count(L)]
        log1 == Append(log, [fn |-> tx.fn, nonce |-> tx.nonce])
        c1   == <<"get_transaction_count">>
        c2   == <<"get_transaction_count", "transact">>
        c3   == <<"get_transaction_count", "transact",
                  "wait_for_transaction_receipt">>
        rcpt(st) == Some([transactionHash |-> Len(log1), status |-> st])
    IN  CASE out = "unreachable" -> Result(L, log, c1, "ConnectionError", None)
          [] out = "rejected" -> Result(L, log, c2, "TransactionError", None)
          [] out = "refused"  -> Result(L, log1, c2, "TransactionError", None)
          [] out = "mined"    -> Result(MineTx(L, tx), log1, c3, "", rcpt(1))
          [] out = "reverted" -> Result(MineTx(L, tx), log1, c3, "", rcpt(0))
          [] out = "lost" ->
               Result(MineTx(L, tx), log1, c3, "ConnectionError", None)
          [] OTHER ->
               Result([L EXCEPT !.pending = Some(tx)], log1, c3,
                      "TimeExhausted", None)

\* A call that passes description and holderName in each other's place.
registerCall_swapped(caseId, evidenceId, holderName, description, ipfsHash, action) ==
    [fn |-> "registerEvidence",
     args |-> <<caseId, evidenceId, description, holderName, ipfsHash,
                action>>]

registerCall(caseId, evidenceId, holderName, description, ipfsHash, action) ==
    [fn |-> "registerEvidence",
     args |-> <<caseId, evidenceId, holderName, description, ipfsHash,
                action>>]

registerEvidence(L, log, caseId, evidenceId, holderName, description, ipfsHash, action, out) ==
    SendTransaction(L, log,
        registerCall(caseId, evidenceId, holderName, description, ipfsHash,
                     action),
        out)

\* A call that passes action and to_name in each other's place.
transferCall_swapped(caseId, evidenceId, to_addr, to_name, action, desc) ==
    [fn |-> "transferEvidence",
     args |-> <<caseId, evidenceId, toChecksumAddress(to_addr)[1], action,
                to_name, desc>>]

transferCall(caseId, evidenceId, to_addr, to_name, action, desc) ==
    [fn |-> "transferEvidence",
     args |-> <<caseId, evidenceId, toChecksumAddress(to_addr)[1], to_name,
                action, desc>>]

\* A wrapper that reads the nonce before it converts the address.
transferEvidence_nonceFirst(L, log, caseId, evidenceId, to_addr, to_name, action, desc, out) ==
    IF toChecksumAddress(to_addr) = None
    THEN Result(L, log, <<"get_transaction_count">>, "ValueError", None)
    ELSE SendTransaction(L, log,
             transferCall(caseId, evidenceId, to_addr, to_name, action, desc),
             out)

\* The arguments are evaluated before the transaction dictionary is, so a
\* bad address raises before the nonce is read.
transferEvidence(L, log, caseId, evidenceId, to_addr, to_name, action, desc, out) ==
    IF toChecksumAddress(to_addr) = None
    THEN Result(L, log, <<>>, "ValueError", None)
    ELSE SendTransaction(L, log,
             transferCall(caseId, evidenceId, to_addr, to_name, action, desc),
             out)

deleteCall(caseId, evidenceId) ==
    [fn |-> "deleteEvidence", args |-> <<caseId, evidenceId>>]

deleteEvidence(L, log, caseId, evidenceId, out) ==
    SendTransaction(L, log, deleteCall(caseId, evidenceId), out)

\* What the node and the contract do with one read-only call.
ReadOutcomes == {"ok", "unreachable", "revert"}

\* Read-only calls return <<value>>, or None when the call raises.
viewEvidence(L, caseId, evidenceId, out) ==
    IF out = "ok" THEN Some(ContractView(L, <<caseId, evidenceId>>)) ELSE None

getHistory(L, caseId, evidenceId, out) ==
    IF out = "ok" THEN Some(L.history[<<caseId, evidenceId>>]) ELSE None

getAllEvidenceIds(L, out) ==
    IF out = "ok" THEN Some(L.allIds) ELSE None

ReadExc(out) ==
    CASE out = "ok" -> ""
      [] out = "unreachable" -> "ConnectionError"
      [] OTHER -> "ContractLogicError"

\* An uploader that returns an empty hash, not None, on an exception.
upload_file_to_ipfs_empty(filepath, daemonUp) ==
    IF daemonUp /\ filepath \in DOMAIN IpfsHashOf
    THEN Some(IpfsHashOf[filepath])
    ELSE Some("")

\* upload_file_to_ipfs: the hash, or None on any exception (daemon not
\* running, file not found).
upload_file_to_ipfs(filepath, daemonUp) ==
    IF daemonUp /\ filepath \in DOMAIN IpfsHashOf
    THEN Some(IpfsHashOf[filepath])
    ELSE None

----------------------------------------------------------------------------
\* main_cli

\* What the loop did with the last line read at the menu prompt:
\*   raw, choice     the line and the line trimmed
\*   pair, args      the case and evidence id entered, and the other inputs
\*                   (for option 1 also whether the IPFS daemon answers)
\*   calls           the remote calls made, in order
\*   exc             the exception a remote call or input() raised, "" if none
\*   msg             the message printed at the end of the action
\*   upload          upload_file_to_ipfs's return value
\*   receipt, view, hist, ids   the wrapper's return value
\*   printed         the evidence fields printed by option 4
\*   before, histBefore   the pair's record and history before the action
Blank(raw, choice) ==
    [raw |-> raw, choice |-> choice, pair |-> <<"", "">>, args |-> <<>>,
     calls |-> <<>>, exc |-> "", msg |-> "", upload |-> None,
     receipt |-> None, view |-> None, printed |-> None, hist |-> None,
     ids |-> None, before |-> DefaultRecord, histBefore |-> <<>>]

\* Whether the last action got a receipt with status 1.
Succeeded(l) == l.receipt # None /\ l.receipt[1].status = 1

\* What is kept of the action before the last one: its choice, and for an
\* action that got a receipt with status 1 also its inputs and the record it
\* found.
Summary(l) ==
    IF Succeeded(l)
    THEN [choice |-> l.choice, pair |-> l.pair, args |-> l.args,
          ok |-> TRUE, before |-> l.before]
    ELSE [choice |-> l.choice, pair |-> <<"", "">>, args |-> <<>>,
          ok |-> FALSE, before |-> DefaultRecord]

\* A call site without the try block: the exception ends the process.
try_except_missing(exc, okMsg, errMsg) ==
    [pc |-> IF exc = "" THEN "menu" ELSE "crashed",
     msg |-> IF exc = "" THEN okMsg ELSE ""]

\* try: ... except Exception as e: print(f"<errMsg>: {e}"); the loop goes on.
try_except(exc, okMsg, errMsg) ==
    [pc |-> "menu", msg |-> IF exc = "" THEN okMsg ELSE errMsg]

\* Option 4 with the test of the deleted flag inverted.
PrintEvidence_inverted(e) ==
    [EvidenceID |-> e[1], CurrentHolder |-> e[2], HolderName |-> e[3],
     Description |-> e[4], IPFSHash |-> e[5],
     Deleted |-> IF e[6] THEN "No" ELSE "Yes"]

\* The lines option 4 prints for the tuple e.
PrintEvidence(e) ==
    [EvidenceID |-> e[1], CurrentHolder |-> e[2], HolderName |-> e[3],
     Description |-> e[4], IPFSHash |-> e[5],
     Deleted |-> IF e[6] THEN "Yes" ELSE "No"]

Pick(raw, choice, c, e, args) ==
    [Blank(raw, choice) EXCEPT
       !.pair = <<c, e>>, !.args = args,
       !.before = ledger.evidence[<<c, e>>],
       !.histBefore = ledger.history[<<c, e>>]]

\* The common end of options 1, 2 and 3: r is the wrapper's result.
Mutated(l, r, okMsg, errMsg) ==
    LET h == try_except(r.exc, okMsg, errMsg)
    IN  /\ pc' = h.pc
        /\ ledger' = r.ledger
        /\ sent' = r.sent
        /\ last' = [l EXCEPT !.calls = l.calls \o r.calls, !.exc = r.exc,
                             !.msg = h.msg, !.receipt = r.receipt]
        /\ prev' = Summary(last)
        /\ ops' = ops + 1
        /\ UNCHANGED exitCode

\* The common end of the actions that send nothing.
ReadOnly(l, pcNext) ==
    /\ pc' = pcNext
    /\ last' = l
    /\ prev' = Summary(last)
    /\ ops' = ops + 1
    /\ UNCHANGED <<ledger, sent, exitCode>>

Option1(raw, c, e, name, desc, path, daemonUp, out) ==
    /\ pc = "menu" /\ ops < MaxOps
    /\ strip(raw) = Key(1)
    /\ LET ipfsHash == upload_file_to_ipfs(path, daemonUp)
           l == [Pick(raw, strip(raw), c, e, <<name, desc, path, daemonUp>>) EXCEPT
                   !.calls = <<"upload_file_to_ipfs">>, !.upload = ipfsHash]
       IN  IF ipfsHash = None
           THEN /\ out = "rejected"
                /\ ReadOnly([l EXCEPT !.msg = "Failed to upload file to IPFS. Cannot register evidence."], "menu")
           ELSE /\ OutcomePossible(ledger, registerCall(c, e, name, desc, ipfsHash[1], "collected"), out)
                /\ Mutated(l, registerEvidence(ledger, sent, c, e, name, desc, ipfsHash[1], "collected", out),
                           "Evidence registered with Tx Hash", "Error registering evidence")

Option2(raw, c, e, toAddress, toName, desc, out) ==
    /\ pc = "menu" /\ ops < MaxOps
    /\ strip(raw) = Key(2)
    /\ IF toChecksumAddress(toAddress) = None
       THEN out = "rejected"
       ELSE OutcomePossible(ledger, transferCall(c, e, toAddress, toName, "transferred", desc), out)
    /\ Mutated(Pick(raw, strip(raw), c, e, <<toAddress, toName, desc>>),
               transferEvidence(ledger, sent, c, e, toAddress, toName, "transferred", desc, out),
               "Evidence transferred with Tx Hash", "Error transferring evidence")

Option3(raw, c, e, out) ==
    /\ pc = "menu" /\ ops < MaxOps
    /\ strip(raw) = Key(3)
    /\ OutcomePossible(ledger, deleteCall(c, e), out)
    /\ Mutated(Pick(raw, strip(raw), c, e, <<>>),
               deleteEvidence(ledger, sent, c, e, out),
               "Evidence deleted with Tx Hash", "Error deleting evidence")

Option4(raw, c, e, out) ==
    /\ pc = "menu" /\ ops < MaxOps
    /\ strip(raw) = Key(4)
    /\ out = "revert" => ~Exists(ledger, <<c, e>>)
    /\ LET v == viewEvidence(ledger, c, e, out)
           h == try_except(ReadExc(out), "Deleted:", "Error viewing evidence")
       IN  ReadOnly([Pick(raw, strip(raw), c, e, <<>>) EXCEPT
                       !.calls = <<"viewEvidence">>, !.exc = ReadExc(out),
                       !.msg = h.msg, !.view = v,
                       !.printed = IF v = None THEN None
                                   ELSE Some(PrintEvidence(v[1]))],
                    h.pc)

Option5(raw, c, e, out) ==
    /\ pc = "menu" /\ ops < MaxOps
    /\ strip(raw) = Key(5)
    /\ out # "revert"
    /\ LET hs == getHistory(ledger, c, e, out)
           ok == IF hs # None /\ Len(hs[1]) = 0 THEN "No history found."
                 ELSE "Entry #"
           h == try_except(ReadExc(out), ok, "Error fetching history")
       IN  ReadOnly([Pick(raw, strip(raw), c, e, <<>>) EXCEPT
                       !.calls = <<"getHistory">>, !.exc = ReadExc(out),
                       !.msg = h.msg, !.hist = hs],
                    h.pc)

Option6(raw, out) ==
    /\ pc = "menu" /\ ops < MaxOps
    /\ strip(raw) = Key(6)
    /\ out # "revert"
    /\ LET h == try_except(ReadExc(out), "All evidence IDs:", "Error listing evidence")
       IN  ReadOnly([Blank(raw, strip(raw)) EXCEPT
                       !.calls = <<"getAllEvidenceIds">>, !.exc = ReadExc(out),
                       !.msg = h.msg, !.ids = getAllEvidenceIds(ledger, out)],
                    h.pc)

\* choice == "0": break; main_cli returns and the interpreter exits with 0.
Option0(raw) ==
    /\ pc = "menu" /\ ops < MaxOps
    /\ strip(raw) = Key(0)
    /\ pc' = "exited"
    /\ exitCode' = Some(0)
    /\ last' = [Blank(raw, strip(raw)) EXCEPT !.msg = "Exiting CLI."]
    /\ prev' = Summary(last)
    /\ ops' = ops + 1
    /\ UNCHANGED <<ledger, sent>>

Recognised == {Key(0), Key(1), Key(2), Key(3), Key(4), Key(5), Key(6)}

\* else: print("Invalid choice. Please select a valid option.")
InvalidChoice(raw) ==
    /\ pc = "menu" /\ ops < MaxOps
    /\ strip(raw) \notin Recognised
    /\ ReadOnly([Blank(raw, strip(raw)) EXCEPT
                   !.msg = "Invalid choice. Please select a valid option."],
                "menu")

\* input() at end of input: EOFError is raised outside every try block, at
\* the menu prompt or at a prompt of options 1-5 (all of them come before the
\* option's remote call), and the interpreter exits with status 1.
InputEOF ==
    /\ pc = "menu" /\ ops < MaxOps
    /\ pc' = "crashed"
    /\ exitCode' = Some(1)
    /\ last' = [Blank(<<>>, <<>>) EXCEPT !.exc = "EOFError"]
    /\ prev' = Summary(last)
    /\ ops' = ops + 1
    /\ UNCHANGED <<ledger, sent>>

\* The node mines the transaction that was waiting.
Mine ==
    /\ pc = "menu"
    /\ ledger.pending # None
    /\ ledger' = MineTx(ledger, ledger.pending[1])
    /\ UNCHANGED <<pc, exitCode, sent, ops, last, prev>>

Init ==
    /\ pc = "menu"
    /\ exitCode = None
    /\ ledger = InitLedger
    /\ sent = <<>>
    /\ ops = 0
    /\ last = Blank(<<>>, <<>>)
    /\ prev = Summary(Blank(<<>>, <<>>))

Next ==
    \/ \E raw \in RawChoices, c \in CaseIds, e \in EvidenceIds,
          name \in HolderNames, desc \in Descriptions, path \in FilePaths,
          daemonUp \in BOOLEAN, out \in NodeOutcomes :
          Option1(raw, c, e, name, desc, path, daemonUp, out)
    \/ \E raw \in RawChoices, c \in CaseIds, e \in EvidenceIds,
          toAddress \in AddressInputs, toName \in RecipientNames,
          desc \in TransferDescriptions, out \in NodeOutcomes :
          Option2(raw, c, e, toAddress, toName, desc, out)
    \/ \E raw \in RawChoices, c \in CaseIds, e \in EvidenceIds,
          out \in NodeOutcomes : Option3(raw, c, e, out)
    \/ \E raw \in RawChoices, c \in CaseIds, e \in EvidenceIds,
          out \in ReadOutcomes : Option4(raw, c, e, out)
    \/ \E raw \in RawChoices, c \in CaseIds, e \in EvidenceIds,
          out \in ReadOutcomes : Option5(raw, c, e, out)
    \/ \E raw \in RawChoices, out \in ReadOutcomes : Option6(raw, out)
    \/ \E raw \in RawChoices : Option0(raw)
    \/ \E raw \in RawChoices : InvalidChoice(raw)
    \/ InputEOF
    \/ Mine

Spec == Init /\ [][Next]_vars

----------------------------------------------------------------------------
\* Properties

\* A step of the console loop that read a menu choice and acted on it.
MenuStep == ops' = ops + 1

\* The line's only character besides whitespace is the one digit d.
TrimsTo(raw, d) ==
    \E i \in 1..Len(raw) :
        /\ raw[i] = 48 + d
        /\ \A j \in 1..Len(raw) : j # i => raw[j] \in Whitespace

CallerAccount == "0x5aAeb6053F3E94C9b9A09f33669435E7Ef1BeAed"
RecipientAccount == "0xfB6916095ca1df60bB79Ce92cE3Ea74c37c5d359"
MalformedAddresses == {"0xBEEF"}

\* Option 1 whose upload cannot succeed: the file is missing or the daemon
\* does not answer.
UploadFailed(l) ==
    /\ l.choice = Key(1)
    /\ (l.args[3] = "missing.jpg" \/ l.args[4] = FALSE)

Count(seq, x) == Cardinality({i \in 1..Len(seq) : seq[i] = x})

\* What the state shows after a failed upload, and what the step changes.
C1_FailedUploadState ==
    UploadFailed(last) =>
        /\ last.upload = None
        /\ last.calls = <<"upload_file_to_ipfs">>
        /\ last.receipt = None
        /\ last.exc = ""
        /\ last.msg = "Failed to upload file to IPFS. Cannot register evidence."
        /\ pc = "menu"

C1_FailedUploadStep ==
    (MenuStep /\ UploadFailed(last')) => (ledger' = ledger /\ sent' = sent)

\* C1: when the upload of option 1 fails, upload_file_to_ipfs returns None,
\* registerEvidence is not invoked (no nonce read, no transaction, no
\* receipt), and the step leaves the ledger and the log of submitted
\* transactions as they were, with the loop back at the menu.
C1_UploadFailureSkipsRegister ==
    [](C1_FailedUploadState) /\ [][C1_FailedUploadStep]_vars

C1_Witness ==
    /\ UploadFailed(last)
    /\ last.args[3] = "missing.jpg"
    /\ last.upload = None
    /\ pc = "menu"
    /\ Len(sent) > 0

ErrorMessages ==
    [c \in {Key(1), Key(2), Key(3), Key(4), Key(5), Key(6)} |->
        CASE c = Key(1) -> {"Error registering evidence",
                             "Failed to upload file to IPFS. Cannot register evidence."}
          [] c = Key(2) -> {"Error transferring evidence"}
          [] c = Key(3) -> {"Error deleting evidence"}
          [] c = Key(4) -> {"Error viewing evidence"}
          [] c = Key(5) -> {"Error fetching history"}
          [] OTHER -> {"Error listing evidence"}]

\* The last action made a remote call that failed.
RemoteFailed(l) ==
    /\ l.calls # <<>>
    /\ (l.exc # "" \/ UploadFailed(l))

\* Every menu option, and exit, can be taken in the current state.
EveryOptionSelectable ==
    /\ ENABLED (\E c \in CaseIds, e \in EvidenceIds, name \in HolderNames,
                   desc \in Descriptions, path \in FilePaths,
                   daemonUp \in BOOLEAN, out \in NodeOutcomes :
                   Option1(Key(1), c, e, name, desc, path, daemonUp, out))
    /\ ENABLED (\E c \in CaseIds, e \in EvidenceIds,
                   toAddress \in AddressInputs, toName \in RecipientNames,
                   desc \in TransferDescriptions, out \in NodeOutcomes :
                   Option2(Key(2), c, e, toAddress, toName, desc, out))
    /\ ENABLED (\E c \in CaseIds, e \in EvidenceIds, out \in NodeOutcomes :
                   Option3(Key(3), c, e, out))
    /\ ENABLED (\E c \in CaseIds, e \in EvidenceIds, out \in ReadOutcomes :
                   Option4(Key(4), c, e, out))
    /\ ENABLED (\E c \in CaseIds, e \in EvidenceIds, out \in ReadOutcomes :
                   Option5(Key(5), c, e, out))
    /\ ENABLED (\E out \in ReadOutcomes : Option6(Key(6), out))
    /\ ENABLED Option0(Key(0))

\* C2: after a failed remote call of any option 1-6 the failure has been
\* reported with that option's error message, the process has not ended, the
\* loop is back at the menu, and every menu option can be selected again
\* (while the model explores further selections).
C2_FailuresCaught ==
    RemoteFailed(last) =>
        /\ pc = "menu"
        /\ exitCode = None
        /\ last.choice \in DOMAIN ErrorMessages
        /\ last.msg \in ErrorMessages[last.choice]
        /\ ops < MaxOps => EveryOptionSelectable

C2_Witness ==
    /\ RemoteFailed(last)
    /\ last.choice = Key(5)
    /\ last.exc = "ConnectionError"
    /\ prev.choice = Key(3)
    /\ ~prev.ok
    /\ pc = "menu"

\* C3: no two transactions submitted by the client carry the same nonce.
C3_NoncesDistinct ==
    \A i, j \in 1..Len(sent) : i # j => sent[i].nonce # sent[j].nonce

\* What one step may add to the log of submitted transactions.
C4_OneSendPerStep ==
    /\ Len(sent') <= Len(sent) + 1
    /\ Len(sent') >= Len(sent)
    /\ Len(sent') > Len(sent) =>
          /\ MenuStep
          /\ last'.choice \in {Key(1), Key(2), Key(3)}
    /\ Count(last'.calls, "transact") <= 1

\* C4: a step submits at most one transaction, only a step that is a
\* selection of option 1, 2 or 3 submits one, and one selection calls
\* transact at most once.
C4_NoAutomaticRetry == [][C4_OneSendPerStep]_vars

C4_Witness ==
    /\ last.choice \in {Key(1), Key(2), Key(3)}
    /\ last.exc = "TimeExhausted"
    /\ Len(sent) = 1
    /\ ops = 1

\* The previous action registered the pair successfully and the last one
\* viewed the same pair and got an answer.
RegisterThenView ==
    /\ prev.choice = Key(1) /\ prev.ok
    /\ last.choice = Key(4) /\ last.exc = ""
    /\ last.pair = prev.pair

\* C5: a view right after a successful register of the same pair returns
\* (evidenceId, caller account, holder name, description, attachment hash,
\* deleted = false) with the values that were submitted.
C5_RegisterThenView ==
    RegisterThenView =>
        /\ prev.before = DefaultRecord
        /\ last.view = Some(<<last.pair[2], CallerAccount, prev.args[1],
                              prev.args[2], IpfsHashOf[prev.args[3]], FALSE>>)

C5_Witness ==
    /\ RegisterThenView
    /\ last.pair = <<"CASE1", "EVID2">>

Actions(h) == [i \in 1..Len(h) |-> h[i][3]]

\* The ledger after a transfer, and what a getHistory step returns.
C6_TransferState ==
    (last.choice = Key(2) /\ Succeeded(last)) =>
        LET r == ledger.evidence[last.pair]
            h == ledger.history[last.pair]
        IN  /\ r.holder = RecipientAccount
            /\ r.holderName = last.args[2]
            /\ r = [last.before EXCEPT !.holder = RecipientAccount,
                                       !.holderName = last.args[2]]
            /\ Len(h) = Len(last.histBefore) + 1
            /\ SubSeq(h, 1, Len(h) - 1) = last.histBefore
            /\ h[Len(h)][1] = RecipientAccount
            /\ h[Len(h)][2] = last.args[2]
            /\ h[Len(h)][3] = "transferred"
            /\ h[Len(h)][4] = last.args[3]
            /\ (prev.choice = Key(1) /\ prev.ok /\ prev.pair = last.pair)
                  => Actions(h) = <<"collected", "transferred">>

C6_HistoryStep ==
    (MenuStep /\ last'.choice = Key(5) /\ last'.exc = "") =>
        last'.hist = Some(ledger.history[last'.pair])

\* C6: after a successful transfer the record's holder is the recipient's
\* address and name, and the record's history is the history before the
\* transfer with one entry for the transfer appended; after register then
\* transfer it is [collected, transferred]; getHistory returns the
\* contract's history of the pair as it is.
C6_TransferAppendsOne == [](C6_TransferState) /\ [][C6_HistoryStep]_vars

C6_Witness ==
    /\ last.choice = Key(2) /\ Succeeded(last)
    /\ prev.choice = Key(1) /\ prev.ok /\ prev.pair = last.pair
    /\ last.args[1] = "0xfb6916095ca1df60bb79ce92ce3ea74c37c5d359"

DeleteThenView ==
    /\ prev.choice = Key(3) /\ prev.ok
    /\ last.choice = Key(4) /\ last.exc = ""
    /\ last.pair = prev.pair

\* C7: a view right after a successful delete of a registered pair returns
\* deleted = true (printed as "Yes") and every other field as it was before
\* the delete; a successful delete leaves the pair's history as it was.
C7_DeleteThenView ==
    /\ DeleteThenView =>
          LET b == prev.before
          IN  /\ b # DefaultRecord
              /\ last.view = Some(<<b.evidenceId, b.holder, b.holderName,
                                    b.description, b.ipfsHash, TRUE>>)
              /\ last.printed =
                    Some([EvidenceID |-> b.evidenceId,
                          CurrentHolder |-> b.holder,
                          HolderName |-> b.holderName,
                          Description |-> b.description,
                          IPFSHash |-> b.ipfsHash, Deleted |-> "Yes"])
    /\ (last.choice = Key(3) /\ Succeeded(last)) =>
          /\ ledger.history[last.pair] = last.histBefore
          /\ ledger.evidence[last.pair] = [last.before EXCEPT !.deleted = TRUE]

C7_Witness ==
    /\ DeleteThenView
    /\ prev.before.holderName = "Alice"
    /\ ~prev.before.deleted
    /\ Len(ledger.history[last.pair]) = 1

\* C8: a view of a never-registered pair that the contract answers ends in
\* an error and hands no record to the caller.
C8_ViewNotFound ==
    ( /\ last.choice = Key(4)
      /\ last.before = DefaultRecord
      /\ last.exc # "ConnectionError" ) =>
        /\ last.exc # ""
        /\ last.view = None
        /\ last.printed = None

MalformedTransfer(l) ==
    l.choice = Key(2) /\ l.args[1] \in MalformedAddresses

\* What the state shows after a transfer to a malformed address, and what
\* the step changes.
C9_MalformedState ==
    MalformedTransfer(last) =>
        /\ last.exc = "ValueError"
        /\ last.calls = <<>>
        /\ last.receipt = None
        /\ last.msg = "Error transferring evidence"
        /\ pc = "menu"
        /\ exitCode = None

C9_MalformedStep ==
    (MenuStep /\ MalformedTransfer(last')) => (ledger' = ledger /\ sent' = sent)

\* C9: a transfer to a malformed address raises the address error with no
\* remote call made (no nonce read, no transaction), the step leaves the
\* ledger and the log of submitted transactions as they were, and the loop
\* reports the error and is back at the menu.
C9_MalformedAddressSendsNothing ==
    [](C9_MalformedState) /\ [][C9_MalformedStep]_vars

C9_Witness ==
    /\ MalformedTransfer(last)
    /\ ledger.evidence[last.pair] # DefaultRecord
    /\ ledger.pending # None

Digits == 0..6

OptionCalls ==
    [d \in Digits |->
        CASE d = 0 -> {}
          [] d \in {1, 2, 3} ->
               {"upload_file_to_ipfs", "get_transaction_count", "transact",
                "wait_for_transaction_receipt"} \ (IF d = 1 THEN {} ELSE {"upload_file_to_ipfs"})
          [] d = 4 -> {"viewEvidence"}
          [] d = 5 -> {"getHistory"}
          [] OTHER -> {"getAllEvidenceIds"}]

\* A choice was read and acted on (not the initial state, not end of input).
ChoiceRead == ops > 0 /\ last.exc # "EOFError"

\* C10: the process has exited exactly when the last choice read trims to
\* "0", and then with exit code 0; a choice that trims to one of "1".."6"
\* makes only that option's remote calls and leaves the loop at the menu; any
\* other choice makes no remote call and leaves the loop at the menu; the
\* process ends in no other way than exit or end of input.
C10_ExitOnlyOnZero ==
    /\ pc = "exited" <=> (TrimsTo(last.raw, 0) /\ last.exc # "EOFError")
    /\ pc = "exited" => exitCode = Some(0)
    /\ pc = "menu" => exitCode = None
    /\ pc = "crashed" => (last.exc = "EOFError" /\ last.calls = <<>>)
    /\ pc \in {"menu", "exited", "crashed"}
    /\ \A d \in Digits \ {0} :
          (ChoiceRead /\ TrimsTo(last.raw, d)) =>
              /\ pc = "menu"
              /\ last.choice = Key(d)
              /\ \A i \in 1..Len(last.calls) : last.calls[i] \in OptionCalls[d]
    /\ (ChoiceRead /\ \A d \in Digits : ~TrimsTo(last.raw, d)) =>
          /\ pc = "menu"
          /\ last.calls = <<>>
          /\ last.msg = "Invalid choice. Please select a valid option."

C10_Witness ==
    /\ pc = "exited"
    /\ last.raw = <<32, 12, 48, 160, 9>>
    /\ prev.choice = <<48, 32, 48>>
    /\ exitCode = Some(0)

====
